---- MODULE Spec2Model ----
(***************************************************************************)
(* Model of the subscription-and-payment lifecycle engine of the X10 club  *)
(* bot: the ledger store (database.py), the payment confirmation handlers  *)
(* (handlers/club.py, handlers/admin.py), the referral registration        *)
(* (handlers/start.py) and the scheduler jobs (scheduled_tasks.py).        *)
(*                                                                         *)
(* Time is a counter of clock ticks, TicksPerDay ticks to a day.  The      *)
(* process clock (datetime.now()) and the store's clock (datetime('now'))  *)
(* are taken to agree, that is the process runs in UTC.                    *)
(***************************************************************************)
EXTENDS Integers, Sequences, FiniteSets, TLC

----------------------------------------------------------------------------
(* Bounds of the model *)

NumUsers == 3
NumCustomers == 2
MaxPayments == 1
MaxCrypto == 2
MaxSubCalls == 3
PayMaxTime == 1
SubMaxDays == 14
MaxTasks == 2
MaxPast == 9
TicksPerDay == 2

(* Program constants *)

ClubDays == 30
MilestoneDays == 30
FreeDays == 7
MilestoneVip == 3
MilestoneClub == 5
MilestoneConsultation == 10
PointsPerReferral == 1000
ClubPrice == 1000
VietnamPrice == 1000
ConsultationPrice == 2000
NULL == -1

Users == 1..NumUsers
Customers == 1..NumCustomers
AdminIds == {1}
Products == {"club", "vietnam", "consultation", "other"}
Methods == {"card", "stars"}

Milestones == {MilestoneVip, MilestoneClub, MilestoneConsultation}

Days(d) == d * TicksPerDay

----------------------------------------------------------------------------
VARIABLES
    now,              \* the clock, in ticks
    users,            \* table users: user_id -> [balance]
    subscriptions,    \* table subscriptions, indexed by subscription_id
    payments,         \* table payments, indexed by payment_id
    crypto_payments,  \* table crypto_payments, indexed by payment_id
    referrals,        \* table referrals, indexed by referral_id
    charged,          \* payment ids whose Stars invoice the platform has charged
    fulfilled,        \* per payment: fulfillment dispatches run and days granted
    sub_calls,        \* log of the add_subscription calls made directly on the store
    last,             \* the handler or operation that ran last, and what it returned
    tasks,            \* in-flight handler invocations (interleaved specifications)
    invoices          \* the payment service: status of every crypto invoice issued

vars == << now, users, subscriptions, payments, crypto_payments, referrals,
           charged, fulfilled, sub_calls, last, tasks, invoices >>

----------------------------------------------------------------------------
(* Ledger store: payments *)

create_payment(pays, user_id, amount, product_type, payment_method) ==
    Append(pays, [user_id |-> user_id, amount |-> amount,
                  product_type |-> product_type,
                  payment_method |-> payment_method,
                  status |-> "pending", confirmed_at |-> NULL])

confirm_payment_wrong_status(pays, payment_id, t) ==
    IF payment_id \in DOMAIN pays
    THEN [pays EXCEPT ![payment_id].status = "paid",
                      ![payment_id].confirmed_at = t]
    ELSE pays

confirm_payment(pays, payment_id, t) ==
    IF payment_id \in DOMAIN pays
    THEN [pays EXCEPT ![payment_id].status = "confirmed",
                      ![payment_id].confirmed_at = t]
    ELSE pays

get_payment_description(product_type) ==
    IF product_type = "club"
    THEN [amount |-> ClubPrice, days |-> ClubDays]
    ELSE IF product_type = "vietnam"
         THEN [amount |-> VietnamPrice, days |-> 0]
         ELSE IF product_type = "consultation"
              THEN [amount |-> ConsultationPrice, days |-> 0]
              ELSE [amount |-> 0, days |-> 0]

----------------------------------------------------------------------------
(* Ledger store: subscriptions *)

\* SELECT ... WHERE user_id = ? AND status = 'active' ORDER BY end_date DESC LIMIT 1
\* (0 when no row qualifies)
latest_active(subs, user_id) ==
    LET c == { i \in DOMAIN subs : subs[i].user_id = user_id /\ subs[i].status = "active" }
    IN IF c = {} THEN 0
       ELSE CHOOSE i \in c : \A j \in c :
                \/ subs[j].end_date < subs[i].end_date
                \/ (subs[j].end_date = subs[i].end_date /\ i <= j)

write_subscription_max(subs, user_id, days, sid, current_end, t0, t1) ==
    LET end_date == t0 + Days(days)
    IN IF sid # 0
       THEN [subs EXCEPT ![sid].end_date =
                IF current_end > end_date THEN current_end ELSE end_date]
       ELSE Append(subs, [user_id |-> user_id, end_date |-> end_date,
                          status |-> "active"])

write_subscription_always_stack(subs, user_id, days, sid, current_end, t0, t1) ==
    LET end_date == t0 + Days(days)
    IN IF sid # 0
       THEN [subs EXCEPT ![sid].end_date = current_end + Days(days)]
       ELSE Append(subs, [user_id |-> user_id, end_date |-> end_date,
                          status |-> "active"])

write_subscription_replace(subs, user_id, days, sid, current_end, t0, t1) ==
    LET end_date == t0 + Days(days)
    IN IF sid # 0
       THEN [subs EXCEPT ![sid].end_date = end_date]
       ELSE Append(subs, [user_id |-> user_id, end_date |-> end_date,
                          status |-> "active"])

\* the UPDATE or INSERT add_subscription issues once its SELECT has returned
\* row sid with end_date current_end (sid = 0: no row); t0 is the clock read on
\* entry (line 180), t1 the clock read of the comparison (line 199)
write_subscription(subs, user_id, days, sid, current_end, t0, t1) ==
    LET end_date == t0 + Days(days)
    IN IF sid # 0
       THEN LET new_end_date == IF current_end < t1 THEN end_date
                                ELSE current_end + Days(days)
            IN [subs EXCEPT ![sid].end_date = new_end_date]
       ELSE Append(subs, [user_id |-> user_id, end_date |-> end_date,
                          status |-> "active"])

EndOf(subs, sid) == IF sid \in DOMAIN subs THEN subs[sid].end_date ELSE NULL

add_subscription(subs, user_id, days, t0, t1) ==
    write_subscription(subs, user_id, days, latest_active(subs, user_id),
                       EndOf(subs, latest_active(subs, user_id)), t0, t1)

\* SELECT * ... WHERE user_id = ? AND status = 'active' AND end_date > datetime('now')
\* ORDER BY end_date DESC LIMIT 1 (0 when no row qualifies).  end_date holds the
\* isoformat text 'YYYY-MM-DDTHH:MM:SS.ffffff' and datetime('now') yields
\* 'YYYY-MM-DD HH:MM:SS': the texts are compared, and 'T' sorts after ' ', so a
\* row qualifies when its date is today's or later.
check_subscription(subs, user_id, t) ==
    LET c == { i \in DOMAIN subs : /\ subs[i].user_id = user_id
                                   /\ subs[i].status = "active"
                                   /\ subs[i].end_date \div TicksPerDay >= t \div TicksPerDay }
    IN IF c = {} THEN 0
       ELSE CHOOSE i \in c : \A j \in c :
                \/ subs[j].end_date < subs[i].end_date
                \/ (subs[j].end_date = subs[i].end_date /\ i <= j)

\* SELECT s.*, u.username, u.full_name FROM subscriptions s
\* JOIN users u ON s.user_id = u.user_id
\* WHERE s.status = 'active' AND datetime(s.end_date) < datetime('now'):
\* the inner join drops every row whose user_id has no row in users
get_expired_subscriptions(subs, us, t) ==
    { i \in DOMAIN subs : /\ subs[i].user_id \in DOMAIN us
                           /\ subs[i].status = "active"
                           /\ subs[i].end_date < t }

deactivate_subscription_keep_status(subs, subscription_id) == subs

\* UPDATE subscriptions SET status = 'expired' WHERE subscription_id = ?
deactivate_subscription(subs, subscription_id) ==
    IF subscription_id \in DOMAIN subs
    THEN [subs EXCEPT ![subscription_id].status = "expired"]
    ELSE subs

\* the subscription_id add_subscription returns
add_subscription_id(subs, user_id) ==
    IF latest_active(subs, user_id) # 0 THEN latest_active(subs, user_id)
    ELSE Len(subs) + 1

----------------------------------------------------------------------------
(* Initial state: the store after create_tables, nothing in flight *)

NoOp == [op |-> "init", user |-> 0, arg |-> 0, ret |-> 0]

Init ==
    /\ now = 0
    /\ users = << >>
    /\ subscriptions = << >>
    /\ payments = << >>
    /\ crypto_payments = << >>
    /\ referrals = << >>
    /\ charged = {}
    /\ fulfilled = << >>
    /\ sub_calls = << >>
    /\ last = NoOp
    /\ tasks = << >>
    /\ invoices = << >>

\* the clock advances by k ticks, up to max
Advance(k, max) ==
    /\ now + k <= max
    /\ now' = now + k
    /\ last' = [op |-> "tick", user |-> 0, arg |-> k, ret |-> 0]
    /\ UNCHANGED << users, subscriptions, payments, crypto_payments, referrals,
                    charged, fulfilled, sub_calls, tasks, invoices >>

----------------------------------------------------------------------------
(* Payment lifecycle, handlers run one at a time *)

\* callback_pay_method: the user picks a payment method for a product
CreatePayment(user_id, product_type, payment_method) ==
    /\ Len(payments) < MaxPayments
    /\ payments' = create_payment(payments, user_id,
                                  get_payment_description(product_type).amount,
                                  product_type, payment_method)
    /\ fulfilled' = Append(fulfilled, [dispatches |-> 0, days |-> 0])
    /\ last' = [op |-> "create_payment", user |-> user_id, arg |-> 0,
                ret |-> Len(payments) + 1]
    /\ UNCHANGED << now, users, subscriptions, crypto_payments, referrals,
                    charged, sub_calls, tasks, invoices >>

Fulfill_every_product(subs, user_id, product_type, t) ==
    add_subscription(subs, user_id, ClubDays, t, t)

\* the fulfillment dispatch both confirmation handlers run after confirm_payment:
\* the subscription table after it
Fulfill(subs, user_id, product_type, t) ==
    IF product_type = "club"
    THEN add_subscription(subs, user_id, get_payment_description(product_type).days, t, t)
    ELSE subs

Dispatched(f, payment_id, product_type) ==
    [f EXCEPT ![payment_id].dispatches = @ + 1,
              ![payment_id].days = @ + get_payment_description(product_type).days]

after_customer_notice_unguarded(send_ok) ==
    IF send_ok THEN "report" ELSE "raise"

\* where cmd_confirm_payment goes once it has tried to notify the customer: the
\* send is inside a try whose except logs the error, so the handler goes on to
\* its report to the admin whether the send went through or raised
after_customer_notice(send_ok) == "report"

\* the words message.text.split() yields: the command itself and what follows
\* it; int() accepts a word of digits and raises ValueError on any other
Number(n) == [numeric |-> TRUE, val |-> n]
Text == [numeric |-> FALSE, val |-> 0]

\* "/confirm_payment <id>" and the malformed forms: the command alone, a word
\* that is no number, two arguments
WellFormed(payment_id) == << Text, Number(payment_id) >>
ConfirmTexts ==
    { WellFormed(id) : id \in 1..(MaxPayments + 1) }
        \cup { << Text >>, << Text, Text >>, << Text, Number(1), Number(1) >> }

parse_confirm_args_first_number(args) ==
    IF Len(args) < 2 THEN [err |-> 4, payment_id |-> 0]
    ELSE IF ~args[2].numeric THEN [err |-> 5, payment_id |-> 0]
    ELSE [err |-> 0, payment_id |-> args[2].val]

\* len(args) != 2 is answered with the usage text (err 4), a ValueError of
\* int(args[1]) with "the id must be a number" (err 5)
parse_confirm_args(args) ==
    IF Len(args) # 2 THEN [err |-> 4, payment_id |-> 0]
    ELSE IF ~args[2].numeric THEN [err |-> 5, payment_id |-> 0]
    ELSE [err |-> 0, payment_id |-> args[2].val]

passes_check_any_status(pays, payment_id, busy) ==
    payment_id \in DOMAIN pays

passes_check_exclusive(pays, payment_id, busy) ==
    /\ payment_id \in DOMAIN pays
    /\ pays[payment_id].status # "confirmed"
    /\ ~busy

\* the check cmd_confirm_payment makes on the row get_payment returned: the row
\* exists and its status is not confirmed.  busy tells whether another handler
\* has passed this check for the same payment and has not finished; nothing in
\* the handler or in the store looks at that
passes_check(pays, payment_id, busy) ==
    /\ payment_id \in DOMAIN pays
    /\ pays[payment_id].status # "confirmed"

is_admin_anybody(user_id) == TRUE

\* `user_id not in config.bot.admin_ids` ends the command with a refusal
is_admin(user_id) == user_id \in AdminIds

\* /confirm_payment sent by sender with the words args; send_ok tells whether
\* the notice to the customer goes through.  ret: 1 not an admin, 4 wrong number
\* of words, 5 id not a number, 2 no such payment, 3 already confirmed,
\* 0 confirmed and reported to the admin, NULL raised
CmdConfirmPayment(sender, args, send_ok) ==
    LET parsed == parse_confirm_args(args)
        payment_id == parsed.payment_id
        confirms == /\ is_admin(sender)
                    /\ parsed.err = 0
                    /\ passes_check(payments, payment_id, FALSE)
    IN /\ last' = [op |-> "cmd_confirm_payment", user |-> sender, arg |-> payment_id,
                   ret |-> IF ~is_admin(sender) THEN 1
                           ELSE IF parsed.err # 0 THEN parsed.err
                           ELSE IF payment_id \notin DOMAIN payments THEN 2
                           ELSE IF ~passes_check(payments, payment_id, FALSE) THEN 3
                           ELSE IF after_customer_notice(send_ok) = "report" THEN 0
                           ELSE NULL,
                   confirmed |-> confirms,
                   notified |-> confirms /\ send_ok,
                   args |-> args]
       /\ IF confirms
          THEN /\ payments' = confirm_payment(payments, payment_id, now)
               /\ subscriptions' = Fulfill(subscriptions, payments[payment_id].user_id,
                                           payments[payment_id].product_type, now)
               /\ fulfilled' = Dispatched(fulfilled, payment_id,
                                          payments[payment_id].product_type)
          ELSE UNCHANGED << payments, subscriptions, fulfilled >>
       /\ UNCHANGED << now, users, crypto_payments, referrals, charged, sub_calls, tasks, invoices >>

\* successful_payment_handler: the platform reports the Stars invoice of
\* payment_id as paid (payload "payment_<id>", minted for stars payments only;
\* the platform charges an invoice once)
SuccessfulPayment(payment_id) ==
    /\ payment_id \in DOMAIN payments
    /\ payments[payment_id].payment_method = "stars"
    /\ payment_id \notin charged
    /\ charged' = charged \cup {payment_id}
    /\ payments' = confirm_payment(payments, payment_id, now)
    /\ subscriptions' = Fulfill(subscriptions, payments[payment_id].user_id,
                                payments[payment_id].product_type, now)
    /\ fulfilled' = Dispatched(fulfilled, payment_id, payments[payment_id].product_type)
    /\ last' = [op |-> "successful_payment", user |-> payments[payment_id].user_id,
                arg |-> payment_id, ret |-> 0]
    /\ UNCHANGED << now, users, crypto_payments, referrals, sub_calls, tasks, invoices >>

NextPay ==
    \/ \E u \in Customers, p \in Products, m \in Methods : CreatePayment(u, p, m)
    \/ \E s \in Customers, id \in 1..(MaxPayments + 1), ok \in BOOLEAN :
           CmdConfirmPayment(s, WellFormed(id), ok)
    \/ \E id \in 1..MaxPayments : SuccessfulPayment(id)
    \/ Advance(1, PayMaxTime)

SpecPay == Init /\ [][NextPay]_vars

\* the commands an admin or anybody else may type, well formed or not
NextCommand ==
    \/ \E u \in Customers, p \in Products, m \in Methods : CreatePayment(u, p, m)
    \/ \E s \in Customers, args \in ConfirmTexts, ok \in BOOLEAN :
           CmdConfirmPayment(s, args, ok)

SpecCommand == Init /\ [][NextCommand]_vars

----------------------------------------------------------------------------
(* C1: every confirmed payment has had exactly one fulfillment dispatch, and a *)
(* club payment has granted at most 30 days in total.                          *)
C1_ExactlyOneDispatch ==
    \A id \in DOMAIN payments :
        payments[id].status = "confirmed" =>
            /\ fulfilled[id].dispatches = 1
            /\ (payments[id].product_type = "club" => fulfilled[id].days <= ClubDays)

(* C2: every payment row is pending or confirmed, and a confirmed row never *)
(* becomes pending again.                                                   *)
C2_StatusOk ==
    \A id \in DOMAIN payments : payments[id].status \in {"pending", "confirmed"}

C2_NeverBack ==
    \A id \in DOMAIN payments :
        payments[id].status = "confirmed" =>
            (id \in DOMAIN payments' /\ payments'[id].status = "confirmed")

C2_NewRowPending ==
    \A id \in DOMAIN payments' :
        id \notin DOMAIN payments => payments'[id].status = "pending"

C2_StatusLifecycle ==
    [](C2_StatusOk) /\ [][C2_NeverBack /\ C2_NewRowPending]_vars

C2_Witness ==
    \E id \in DOMAIN payments :
        /\ payments[id].status = "confirmed"
        /\ last.op \in {"cmd_confirm_payment", "successful_payment"}
        /\ last.arg = id
        /\ fulfilled[id].dispatches >= 1

(* C3: once confirmed_at is stamped, no later step changes it. *)
C3_StampedOnce ==
    [][\A id \in DOMAIN payments :
          payments[id].confirmed_at # NULL =>
              payments'[id].confirmed_at = payments[id].confirmed_at]_vars

(* C18: when an admin's /confirm_payment confirms a payment and the notice to *)
(* the customer fails, the payment is confirmed, a club customer has an       *)
(* active subscription ending 30 days from now or later, and the handler      *)
(* returns having reported the confirmation to the admin.                     *)
C18_ConfirmSurvivesFailedNotice ==
    [][(last'.op = "cmd_confirm_payment" /\ last'.confirmed /\ ~last'.notified) =>
          LET id == last'.arg
              r == check_subscription(subscriptions', payments[id].user_id, now)
          IN /\ payments'[id].status = "confirmed"
             /\ payments'[id].confirmed_at = now
             /\ payments[id].product_type = "club" =>
                    r # 0 /\ subscriptions'[r].end_date >= now + Days(ClubDays)
             /\ last'.ret = 0]_vars

C18_Witness ==
    /\ last.op = "cmd_confirm_payment"
    /\ last.confirmed /\ ~last.notified
    /\ last.ret = 0
    /\ payments[last.arg].product_type = "club"
    /\ payments[last.arg].status = "confirmed"
    /\ subscriptions # << >>

(* C32: an admin's /confirm_payment on a payment that is already confirmed *)
(* reports that and changes nothing: confirmed_at is not stamped again, no  *)
(* subscription is extended and the customer gets no notice.                *)
C32_AlreadyConfirmedNoOp ==
    [][(/\ last'.op = "cmd_confirm_payment"
        /\ last'.user \in AdminIds
        /\ last'.arg \in DOMAIN payments
        /\ payments[last'.arg].status = "confirmed") =>
          /\ last'.ret = 3
          /\ payments' = payments
          /\ subscriptions' = subscriptions
          /\ fulfilled' = fulfilled
          /\ ~last'.notified]_vars

C32_Witness ==
    /\ last.op = "cmd_confirm_payment"
    /\ last.user \in AdminIds
    /\ last.ret = 3
    /\ payments[last.arg].product_type = "club"
    /\ payments[last.arg].confirmed_at < now

\* a step in which a confirmation handler has run the fulfillment dispatch
Fulfilling ==
    \/ last'.op = "cmd_confirm_payment" /\ last'.confirmed
    \/ last'.op = "successful_payment"

Rejected(ps, sender, args) ==
    \/ sender \notin AdminIds
    \/ Len(args) # 2
    \/ ~args[2].numeric
    \/ args[2].val \notin DOMAIN ps

(* C24: a /confirm_payment from a non-admin, with a wrong number of arguments, *)
(* with an id that is no integer, or with an id of no payment row is answered  *)
(* with a message, changes no payment or subscription row and sends nothing to *)
(* any customer.                                                                *)
C24_RejectedCommandChangesNothing ==
    [][(last'.op = "cmd_confirm_payment"
           /\ Rejected(payments, last'.user, last'.args)) =>
          /\ last'.ret \in {1, 2, 4, 5}
          /\ payments' = payments
          /\ subscriptions' = subscriptions
          /\ fulfilled' = fulfilled
          /\ ~last'.confirmed
          /\ ~last'.notified]_vars

C24_Witness ==
    /\ last.op = "cmd_confirm_payment"
    /\ last.user \in AdminIds
    /\ Len(last.args) = 3
    /\ last.ret = 4
    /\ \E id \in DOMAIN payments :
           payments[id].status = "pending" /\ last.args[2] = Number(id)

----------------------------------------------------------------------------
(* Subscription manager: add_subscription calls and expiry sweeps, one at a time *)

GrantDays == {FreeDays, ClubDays}

UserRows(subs, user_id) == Cardinality({ i \in DOMAIN subs : subs[i].user_id = user_id })

\* add_subscription(user_id, days) called on the store; the call and what it
\* found and left are appended to sub_calls
AddSubscription(user_id, days) ==
    /\ Len(sub_calls) < MaxSubCalls
    /\ subscriptions' = add_subscription(subscriptions, user_id, days, now, now)
    /\ LET sid == add_subscription_id(subscriptions, user_id)
       IN /\ sub_calls' = Append(sub_calls,
                [user |-> user_id, days |-> days, at |-> now, sid |-> sid,
                 base |-> IF sid \in DOMAIN subscriptions
                          THEN subscriptions[sid].end_date ELSE NULL,
                 end_after |-> subscriptions'[sid].end_date,
                 rows_before |-> UserRows(subscriptions, user_id),
                 rows_after |-> UserRows(subscriptions', user_id)])
          /\ last' = [op |-> "add_subscription", user |-> user_id, arg |-> days,
                      ret |-> sid]
    /\ UNCHANGED << now, users, payments, crypto_payments, referrals, charged,
                    fulfilled, tasks, invoices >>

RECURSIVE DeactivateAll(_, _)
DeactivateAll(subs, ids) ==
    IF ids = {} THEN subs
    ELSE LET i == CHOOSE x \in ids : TRUE
         IN DeactivateAll(deactivate_subscription(subs, i), ids \ {i})

\* what can happen to a row of the sweep after it is deactivated: both calls go
\* through; ban_chat_member fails (kick_user_from_group catches it and returns
\* False); the notice to the user raises
SweepOutcomes == {"ok", "kick_failed", "send_raised"}

sweep_abort_on_failure(subs, due, outcome) ==
    LET bad == { i \in due : outcome[i] = "send_raised" }
        reached == { i \in due : \A b \in bad : i <= b }
    IN [table |-> DeactivateAll(subs, reached),
        notified |-> reached \ bad]

\* the loop of _check_expired_subscriptions over the snapshot due: each row is
\* deactivated first thing in its own try block, then its user is removed from
\* the group and sent the notice; an exception ends that row's turn only.  The
\* table after the loop and the rows whose user got the notice.
sweep(subs, due, outcome) ==
    [table |-> DeactivateAll(subs, due),
     notified |-> { i \in due : outcome[i] # "send_raised" }]

\* _check_expired_subscriptions, outcome telling what happens to each row
ExpirySweep(outcome) ==
    LET due == get_expired_subscriptions(subscriptions, users, now)
        res == sweep(subscriptions, due, outcome)
    IN /\ subscriptions' = res.table
       /\ last' = [op |-> "expiry_sweep", user |-> 0, arg |-> 0,
                   ret |-> Cardinality(due), outcome |-> outcome,
                   notified |-> res.notified, after |-> last.op]
       /\ UNCHANGED << now, users, payments, crypto_payments, referrals, charged,
                       fulfilled, sub_calls, tasks, invoices >>

Sweep ==
    \E outcome \in [get_expired_subscriptions(subscriptions, users, now) -> SweepOutcomes] :
        ExpirySweep(outcome)

NextSub ==
    \/ \E u \in Customers, d \in GrantDays : AddSubscription(u, d)
    \/ Sweep
    \/ Advance(Days(FreeDays), Days(SubMaxDays))

\* every customer has sent /start before (cmd_start line 33 adds the users row)
InitSub ==
    /\ now = 0
    /\ users = [u \in Customers |-> [balance |-> 0]]
    /\ subscriptions = << >>
    /\ payments = << >>
    /\ crypto_payments = << >>
    /\ referrals = << >>
    /\ charged = {}
    /\ fulfilled = << >>
    /\ sub_calls = << >>
    /\ last = NoOp
    /\ tasks = << >>
    /\ invoices = << >>

SpecSub == InitSub /\ [][NextSub]_vars

\* calls i < j of sub_calls are successive calls for the same user
Successive(i, j) ==
    /\ i < j
    /\ sub_calls[i].user = sub_calls[j].user
    /\ \A k \in (i + 1)..(j - 1) : sub_calls[k].user # sub_calls[i].user

FoundInFuture(c) == c.base # NULL /\ c.base > c.at

(* C5: two successive add_subscription calls for a user whose active row ends *)
(* in the future at both calls extend the same row to the original end_date   *)
(* plus d1 plus d2, and neither call creates a row.                           *)
C5_Stacking ==
    \A i, j \in DOMAIN sub_calls :
        (Successive(i, j) /\ FoundInFuture(sub_calls[i]) /\ FoundInFuture(sub_calls[j])) =>
            /\ sub_calls[j].sid = sub_calls[i].sid
            /\ sub_calls[j].end_after =
                   sub_calls[i].base + Days(sub_calls[i].days) + Days(sub_calls[j].days)
            /\ sub_calls[i].rows_after = sub_calls[i].rows_before
            /\ sub_calls[j].rows_after = sub_calls[j].rows_before

C5_Witness ==
    \E i, j \in DOMAIN sub_calls :
        /\ Successive(i, j)
        /\ FoundInFuture(sub_calls[i]) /\ FoundInFuture(sub_calls[j])
        /\ sub_calls[i].days # sub_calls[j].days
        /\ sub_calls[j].at > sub_calls[i].at

(* C6: add_subscription on an active row whose end_date is already past sets *)
(* that row's end_date to now + d.                                            *)
C6_RestartFromNow ==
    \A i \in DOMAIN sub_calls :
        (sub_calls[i].base # NULL /\ sub_calls[i].base < sub_calls[i].at) =>
            /\ sub_calls[i].end_after = sub_calls[i].at + Days(sub_calls[i].days)
            /\ sub_calls[i].rows_after = sub_calls[i].rows_before

C6_Witness ==
    \E i \in DOMAIN sub_calls :
        /\ sub_calls[i].base # NULL
        /\ sub_calls[i].base < sub_calls[i].at
        /\ subscriptions[sub_calls[i].sid].status = "active"

(* C7: right after add_subscription(u, d) the user has an active subscription *)
(* ending at now + d or later, and no call lowers the end_date of its row.    *)
C7_EndAtLeastNowPlusDays ==
    /\ last.op = "add_subscription" =>
           LET r == check_subscription(subscriptions, last.user, now)
           IN /\ r # 0
              /\ subscriptions[r].end_date >= now + Days(last.arg)
    /\ \A i \in DOMAIN sub_calls :
           /\ sub_calls[i].end_after >= sub_calls[i].at + Days(sub_calls[i].days)
           /\ sub_calls[i].base # NULL => sub_calls[i].end_after >= sub_calls[i].base

C7_Witness ==
    /\ last.op = "add_subscription"
    /\ \E i \in DOMAIN subscriptions :
           subscriptions[i].user_id = last.user /\ subscriptions[i].status = "expired"
    /\ \E i \in DOMAIN sub_calls : FoundInFuture(sub_calls[i])

(* C17: an expiry sweep leaves every row that was due with status expired, *)
(* whatever failed for it or for another row, and the user of every due    *)
(* row whose own notice did not raise has been notified.                   *)
C17_SweepIsolation ==
    [][last'.op = "expiry_sweep" =>
          \A i \in get_expired_subscriptions(subscriptions, users, now) :
              /\ subscriptions'[i].status = "expired"
              /\ last'.outcome[i] # "send_raised" => i \in last'.notified]_vars

C17_Witness ==
    /\ last.op = "expiry_sweep"
    /\ \E i, j \in DOMAIN last.outcome :
           /\ i < j
           /\ last.outcome[i] = "send_raised"
           /\ last.outcome[j] = "kick_failed"
           /\ subscriptions[i].status = "expired"
           /\ j \in last.notified

CallbackClub(user_id) ==
    /\ last' = [op |-> "callback_club", user |-> user_id, arg |-> 0,
                ret |-> check_subscription(subscriptions, user_id, now)]
    /\ UNCHANGED << now, users, subscriptions, payments, crypto_payments,
                    referrals, charged, fulfilled, sub_calls, tasks, invoices >>

\* the clock moves to a later hour of the same day
LaterToday ==
    /\ now % TicksPerDay < TicksPerDay - 1
    /\ Advance(1, Days(SubMaxDays))

\* the store operations of SpecSub, the clock moving by weeks and within the
\* day, and the lookup of callback_club
NextCheck ==
    \/ NextSub
    \/ LaterToday
    \/ \E u \in Customers : CallbackClub(u)

SpecCheck == InitSub /\ [][NextCheck]_vars

\* the rows of user_id that are active and end later than t
Qualifying(subs, user_id, t) ==
    { i \in DOMAIN subs : /\ subs[i].user_id = user_id
                           /\ subs[i].status = "active"
                           /\ subs[i].end_date > t }

(* C21: check_subscription(user) returns a row only if it belongs to the user, *)
(* is active and ends later than now; of several such rows it returns the one  *)
(* ending last, and with no such row it returns nothing.                        *)
C21_CheckSubscriptionReturn ==
    last.op = "callback_club" =>
        LET q == Qualifying(subscriptions, last.user, now)
        IN IF q = {} THEN last.ret = 0
           ELSE /\ last.ret \in q
                /\ \A j \in q :
                       subscriptions[j].end_date <= subscriptions[last.ret].end_date

----------------------------------------------------------------------------
(* Ledger store: users and referrals *)

add_user(us, user_id) ==
    IF user_id \in DOMAIN us THEN us
    ELSE us @@ (user_id :> [balance |-> 0])

update_user_balance_overwrite(us, user_id, amount) ==
    IF user_id \in DOMAIN us
    THEN [us EXCEPT ![user_id].balance = amount]
    ELSE us

\* UPDATE users SET balance = balance + ? WHERE user_id = ?
update_user_balance(us, user_id, amount) ==
    IF user_id \in DOMAIN us
    THEN [us EXCEPT ![user_id].balance = @ + amount]
    ELSE us

HasReferral(refs, user_id) == \E i \in DOMAIN refs : refs[i].user_id = user_id

\* INSERT INTO referrals (user_id, referrer_id) VALUES (?, ?)
insert_referral(refs, user_id, referrer_id) ==
    Append(refs, [user_id |-> user_id, referrer_id |-> referrer_id, is_active |-> TRUE])

add_referral_no_lookup(refs, user_id, referrer_id) ==
    [table |-> insert_referral(refs, user_id, referrer_id),
     referral_id |-> Len(refs) + 1]

\* the table after the call and the referral_id returned (0: already a referral)
add_referral(refs, user_id, referrer_id) ==
    IF HasReferral(refs, user_id)
    THEN [table |-> refs, referral_id |-> 0]
    ELSE [table |-> insert_referral(refs, user_id, referrer_id),
          referral_id |-> Len(refs) + 1]

\* SELECT COUNT(*) FROM referrals WHERE referrer_id = ? AND is_active = 1
count_user_referrals(refs, user_id) ==
    Cardinality({ i \in DOMAIN refs : refs[i].referrer_id = user_id /\ refs[i].is_active })

----------------------------------------------------------------------------
(* Referral registration, /start handlers run one at a time *)

\* what cmd_start gets out of the /start parameter: a referrer id, or 0 when
\* there is no parameter, it does not start with ref_, or it does not decode
StartParams == 0..(NumUsers + 1)

\* check_referrer_bonuses: the subscription table after it (3 and 10 only send)
check_referrer_bonuses(subs, refs, us, referrer_id, t) ==
    IF referrer_id \in DOMAIN us /\ count_user_referrals(refs, referrer_id) = MilestoneClub
    THEN add_subscription(subs, referrer_id, MilestoneDays, t, t)
    ELSE subs

eligible_referrer_unchecked(us, user_id, referrer_id) == referrer_id # 0

\* `if referrer_id and referrer_id != user_id:` and, inside it, `if referrer:`
\* for the row get_user(referrer_id) returned
eligible_referrer(us, user_id, referrer_id) ==
    /\ referrer_id # 0
    /\ referrer_id # user_id
    /\ referrer_id \in DOMAIN us

\* cmd_start for a /start of user_id carrying param, run without interleaving at
\* time t: the three tables after it and the referral_id add_referral returned
\* (NULL: add_referral was not reached).  sends_ok tells whether the two messages
\* sent before the milestone check went through (a send that raises ends the
\* handler there)
cmd_start(us, subs, refs, user_id, param, sends_ok, t) ==
    LET us1 == add_user(us, user_id)
        eligible == eligible_referrer(us1, user_id, param)
        res == add_referral(refs, user_id, param)
        subs1 == add_subscription(subs, user_id, FreeDays, t, t)
    IN IF eligible /\ res.referral_id > 0
       THEN [users |-> update_user_balance(us1, param, PointsPerReferral),
             referrals |-> res.table,
             subscriptions |-> IF sends_ok
                               THEN check_referrer_bonuses(subs1, res.table, us1, param, t)
                               ELSE subs1,
             ret |-> res.referral_id]
       ELSE [users |-> us1, referrals |-> refs, subscriptions |-> subs,
             ret |-> IF eligible THEN res.referral_id ELSE NULL]

CmdStart(user_id, param, sends_ok) ==
    LET r == cmd_start(users, subscriptions, referrals, user_id, param, sends_ok, now)
    IN /\ users' = r.users
       /\ referrals' = r.referrals
       /\ subscriptions' = r.subscriptions
       /\ last' = [op |-> "start", user |-> user_id, arg |-> param, ret |-> r.ret]
       /\ UNCHANGED << now, payments, crypto_payments, charged, fulfilled,
                       sub_calls, tasks, invoices >>

NextRef ==
    \/ \E u \in Users, p \in StartParams, ok \in BOOLEAN : CmdStart(u, p, ok)

SpecRef == Init /\ [][NextRef]_vars

Invitees(refs) == { refs[i].user_id : i \in DOMAIN refs }

(* C8: a /start that reaches add_referral for an invitee who already has a  *)
(* referral edge gets 0 back; no row is inserted and no balance and no      *)
(* referral count changes.                                                  *)
C8_SecondReferralNoOp ==
    [][\A u \in Users :
          (/\ last'.op = "start" /\ last'.user = u
           /\ last'.ret # NULL
           /\ HasReferral(referrals, u)) =>
              /\ last'.ret = 0
              /\ referrals' = referrals
              /\ users' = users
              /\ \A r \in Users :
                     count_user_referrals(referrals', r) = count_user_referrals(referrals, r)]_vars

C8_Witness ==
    /\ last.op = "start"
    /\ last.ret = 0
    /\ \E i \in DOMAIN referrals :
           /\ referrals[i].user_id = last.user
           /\ referrals[i].referrer_id # last.arg
    /\ \E i \in DOMAIN referrals :
           /\ referrals[i].user_id # last.user
           /\ referrals[i].referrer_id = last.arg

(* C10: every user's balance is points_per_referral times the number of *)
(* referral edges naming that user as referrer.                         *)
C10_BalanceMatchesEdges ==
    \A r \in DOMAIN users :
        users[r].balance =
            PointsPerReferral * Cardinality({ i \in DOMAIN referrals : referrals[i].referrer_id = r })

C10_Witness ==
    /\ last.op = "start"
    /\ last.ret = 0
    /\ last.arg \in DOMAIN users
    /\ users[last.arg].balance = 2 * PointsPerReferral

(* C30: referral bonuses are awarded on the registration of a new user only: a *)
(* /start carrying a referral link, sent by a user who already had a users row, *)
(* creates no edge and changes no balance and no subscription.                  *)
C30_BonusesOnRegistrationOnly ==
    [][(last'.op = "start" /\ last'.user \in DOMAIN users) =>
          /\ referrals' = referrals
          /\ subscriptions' = subscriptions
          /\ \A u \in DOMAIN users : users'[u].balance = users[u].balance]_vars

\* the referral count below which a user is reminded of the referral link
ReminderBelow == 5

\* what can happen to one user of the loop of _send_referral_reminders: the
\* reminder goes out; count_user_referrals or get_user raises; the send raises
JobOutcomes == {"ok", "lookup_raised", "send_raised"}

\* the loop of _send_referral_reminders over the rows of users, in the order of
\* user_id: the two lookups of a user stand outside the try that guards the
\* send, so a lookup that raises leaves the loop for the except around the
\* whole job, while a send that raises is logged and the loop goes on.  The
\* users who got the reminder.
send_referral_reminders(us, refs, outcome) ==
    LET stop == { u \in DOMAIN us : outcome[u] = "lookup_raised" }
        reached == { u \in DOMAIN us : \A b \in stop : u < b }
    IN { u \in reached : /\ count_user_referrals(refs, u) < ReminderBelow
                          /\ outcome[u] = "ok" }

\* _send_referral_reminders, outcome telling what happens to each user
SendReferralReminders(outcome) ==
    /\ last' = [op |-> "send_referral_reminders", user |-> 0, arg |-> 0,
                ret |-> 0, outcome |-> outcome,
                reminded |-> send_referral_reminders(users, referrals, outcome)]
    /\ UNCHANGED << now, users, subscriptions, payments, crypto_payments,
                    referrals, charged, fulfilled, sub_calls, tasks, invoices >>

NextJobs ==
    \/ \E u \in Users, p \in StartParams : CmdStart(u, p, TRUE)
    \/ \E outcome \in [DOMAIN users -> JobOutcomes] : SendReferralReminders(outcome)

SpecJobs == Init /\ [][NextJobs]_vars

(* C29: in a scheduler job that loops over users, an exception met while one  *)
(* user is processed, in the send or in the lookups before it, is caught for  *)
(* that user and the loop goes on: every user whose own processing raised     *)
(* nothing gets the message.                                                  *)
C29_JobItemIsolation ==
    [][last'.op = "send_referral_reminders" =>
          \A u \in DOMAIN users :
              (/\ last'.outcome[u] = "ok"
               /\ count_user_referrals(referrals, u) < ReminderBelow) =>
                  u \in last'.reminded]_vars

----------------------------------------------------------------------------
(* Referral milestones, /start handlers run one at a time.  The referrer has *)
(* invited up to MaxPast users before; the users of Users then send /start.  *)

Referrer == 1

\* the user ids of the earlier invitees (NumUsers + 1 stays unregistered)
PastId(i) == NumUsers + 1 + i

\* the tables once every user of Users has sent a plain /start and k earlier
\* invitees have each sent /start ref_<Referrer>, all at time 0, every send
\* having gone through
RECURSIVE after_past_starts(_)
after_past_starts(k) ==
    IF k = 0
    THEN [users |-> [u \in Users |-> [balance |-> 0]],
          subscriptions |-> << >>, referrals |-> << >>, ret |-> NULL]
    ELSE LET s == after_past_starts(k - 1)
         IN cmd_start(s.users, s.subscriptions, s.referrals, PastId(k), Referrer, TRUE, 0)

InitBonus ==
    /\ now = 0
    /\ \E k \in 0..MaxPast :
           /\ users = after_past_starts(k).users
           /\ subscriptions = after_past_starts(k).subscriptions
           /\ referrals = after_past_starts(k).referrals
    /\ payments = << >>
    /\ crypto_payments = << >>
    /\ charged = {}
    /\ fulfilled = << >>
    /\ sub_calls = << >>
    /\ last = NoOp
    /\ tasks = << >>
    /\ invoices = << >>

NextBonus ==
    \/ \E u \in Users, p \in StartParams, ok \in BOOLEAN : CmdStart(u, p, ok)

SpecBonus == InitBonus /\ [][NextBonus]_vars

(* C12: a /start that brings a referrer's count of active referrals to 5 leaves *)
(* the referrer with a 30-day grant made through add_subscription; one that     *)
(* brings it to 3 or to 10 changes nothing but the invitee's free days and the  *)
(* referrer's per-referral points.                                              *)
C12_MilestoneGrant ==
    [][\A r \in Users :
          (/\ last'.op = "start"
           /\ count_user_referrals(referrals', r) = count_user_referrals(referrals, r) + 1) =>
              LET n == count_user_referrals(referrals', r)
                  subs1 == add_subscription(subscriptions, last'.user, FreeDays, now, now)
              IN /\ n = MilestoneClub =>
                        subscriptions' = add_subscription(subs1, r, MilestoneDays, now, now)
                 /\ n \in {MilestoneVip, MilestoneConsultation} =>
                        /\ subscriptions' = subs1
                        /\ users' = update_user_balance(users, r, PointsPerReferral)]_vars

(* C19: what a /start handler leaves in the ledger does not depend on whether *)
(* its sends went through: it is what the run with every send delivered       *)
(* leaves.                                                                    *)
C19_MutationsBeforeSends ==
    [][last'.op = "start" =>
          LET r == cmd_start(users, subscriptions, referrals, last'.user, last'.arg, TRUE, now)
          IN /\ users' = r.users
             /\ referrals' = r.referrals
             /\ subscriptions' = r.subscriptions]_vars

----------------------------------------------------------------------------
(* Referral registration, /start handlers interleaved at their awaits.  The   *)
(* dispatcher runs every update as its own task on one event loop; a handler  *)
(* yields at each await, that is between any two statements sent to the store *)

\* the users registered before the handlers of this specification start (each
\* by a plain /start), no referral recorded yet
InitStart ==
    /\ now = 0
    /\ users \in { [u \in R |-> [balance |-> 0]] : R \in SUBSET Users }
    /\ subscriptions = << >>
    /\ payments = << >>
    /\ crypto_payments = << >>
    /\ referrals = << >>
    /\ charged = {}
    /\ fulfilled = << >>
    /\ sub_calls = << >>
    /\ last = NoOp
    /\ tasks = << >>
    /\ invoices = << >>

ledger_rest ==
    << now, payments, crypto_payments, charged, fulfilled, sub_calls, last, invoices >>

At(k, pc) == k \in DOMAIN tasks /\ tasks[k].pc = pc

\* a /start of user_id carrying param arrives and its handler is started
StartBegin(user_id, param) ==
    /\ Len(tasks) < MaxTasks
    /\ tasks' = Append(tasks, [pc |-> "add_user_select", user |-> user_id,
                               param |-> param, exists |-> FALSE,
                               grant_to |-> 0, grant_days |-> 0,
                               sid |-> 0, current_end |-> NULL, t0 |-> 0, count |-> 0,
                               points |-> FALSE, free |-> FALSE, sent |-> FALSE,
                               fired |-> 0])
    /\ UNCHANGED << users, subscriptions, referrals, ledger_rest >>

\* add_user: SELECT user_id FROM users WHERE user_id = ?
AddUserSelect(k) ==
    /\ At(k, "add_user_select")
    /\ tasks' = [tasks EXCEPT ![k].exists = tasks[k].user \in DOMAIN users,
                              ![k].pc = "add_user_write"]
    /\ UNCHANGED << users, subscriptions, referrals, ledger_rest >>

\* add_user: UPDATE of the names, or INSERT; an INSERT of a user_id that another
\* handler has inserted meanwhile violates the primary key and the exception
\* ends the handler.  Then cmd_start parses the parameter.
AddUserWrite(k) ==
    /\ At(k, "add_user_write")
    /\ LET t == tasks[k]
           raised == ~t.exists /\ t.user \in DOMAIN users
       IN /\ users' = IF t.exists \/ raised THEN users ELSE add_user(users, t.user)
          /\ tasks' = [tasks EXCEPT ![k].pc =
                          IF raised THEN "done"
                          ELSE IF t.param # 0 /\ t.param # t.user THEN "get_referrer"
                          ELSE "done"]
    /\ UNCHANGED << subscriptions, referrals, ledger_rest >>

\* referrer = await db.get_user(referrer_id)
GetReferrer(k) ==
    /\ At(k, "get_referrer")
    /\ tasks' = [tasks EXCEPT ![k].pc =
                    IF tasks[k].param \in DOMAIN users THEN "ref_select" ELSE "done"]
    /\ UNCHANGED << users, subscriptions, referrals, ledger_rest >>

\* add_referral: SELECT referral_id FROM referrals WHERE user_id = ?
RefSelect(k) ==
    /\ At(k, "ref_select")
    /\ tasks' = [tasks EXCEPT ![k].exists = HasReferral(referrals, tasks[k].user),
                              ![k].pc = IF HasReferral(referrals, tasks[k].user)
                                        THEN "done" ELSE "ref_insert"]
    /\ UNCHANGED << users, subscriptions, referrals, ledger_rest >>

\* add_referral: INSERT INTO referrals, commit
RefInsert(k) ==
    /\ At(k, "ref_insert")
    /\ referrals' = insert_referral(referrals, tasks[k].user, tasks[k].param)
    /\ tasks' = [tasks EXCEPT ![k].pc = "balance"]
    /\ UNCHANGED << users, subscriptions, ledger_rest >>

\* update_user_balance(referrer_id, points_per_referral); then add_subscription
\* of the free days is entered and reads the clock
UpdateBalance(k) ==
    /\ At(k, "balance")
    /\ users' = update_user_balance(users, tasks[k].param, PointsPerReferral)
    /\ tasks' = [tasks EXCEPT ![k].pc = "sub_select",
                              ![k].points = TRUE,
                              ![k].grant_to = tasks[k].user,
                              ![k].grant_days = FreeDays,
                              ![k].t0 = now]
    /\ UNCHANGED << subscriptions, referrals, ledger_rest >>

\* add_subscription: SELECT of the latest active row
SubSelect(k) ==
    /\ At(k, "sub_select")
    /\ LET sid == latest_active(subscriptions, tasks[k].grant_to)
       IN tasks' = [tasks EXCEPT ![k].sid = sid,
                                 ![k].current_end = EndOf(subscriptions, sid),
                                 ![k].pc = "sub_write"]
    /\ UNCHANGED << users, subscriptions, referrals, ledger_rest >>

\* add_subscription: UPDATE or INSERT, commit
SubWrite(k) ==
    /\ At(k, "sub_write")
    /\ LET t == tasks[k]
       IN /\ subscriptions' = write_subscription(subscriptions, t.grant_to, t.grant_days,
                                                 t.sid, t.current_end, t.t0, now)
          /\ tasks' = IF t.grant_days = FreeDays /\ t.grant_to = t.user
                      THEN [tasks EXCEPT ![k].pc = "notify", ![k].free = TRUE]
                      ELSE [tasks EXCEPT ![k].pc = "done"]
    /\ UNCHANGED << users, referrals, ledger_rest >>

\* the notice to the referrer and the welcome to the invitee; a send that raises
\* ends the handler before the milestone check
Notify(k, sends_ok) ==
    /\ At(k, "notify")
    /\ tasks' = [tasks EXCEPT ![k].sent = sends_ok,
                              ![k].pc = IF sends_ok THEN "bonus_count" ELSE "done"]
    /\ UNCHANGED << users, subscriptions, referrals, ledger_rest >>

\* check_referrer_bonuses: count_user_referrals(referrer_id)
BonusCount(k) ==
    /\ At(k, "bonus_count")
    /\ tasks' = [tasks EXCEPT ![k].count = count_user_referrals(referrals, tasks[k].param),
                              ![k].pc = "bonus_user"]
    /\ UNCHANGED << users, subscriptions, referrals, ledger_rest >>

\* check_referrer_bonuses: get_user(referrer_id), then the branch on the count:
\* 3 and 10 send a message, 5 calls add_subscription of a month and then sends
BonusUser(k) ==
    /\ At(k, "bonus_user")
    /\ LET t == tasks[k]
           hit == t.param \in DOMAIN users /\ t.count \in Milestones
       IN tasks' = IF hit /\ t.count = MilestoneClub
                   THEN [tasks EXCEPT ![k].pc = "sub_select",
                                      ![k].fired = t.count,
                                      ![k].grant_to = t.param,
                                      ![k].grant_days = MilestoneDays,
                                      ![k].t0 = now]
                   ELSE [tasks EXCEPT ![k].pc = "done",
                                      ![k].fired = IF hit THEN t.count ELSE 0]
    /\ UNCHANGED << users, subscriptions, referrals, ledger_rest >>

NextStart ==
    \/ \E u \in Users, p \in StartParams : StartBegin(u, p)
    \/ \E k \in 1..MaxTasks : AddUserSelect(k)
    \/ \E k \in 1..MaxTasks : AddUserWrite(k)
    \/ \E k \in 1..MaxTasks : GetReferrer(k)
    \/ \E k \in 1..MaxTasks : RefSelect(k)
    \/ \E k \in 1..MaxTasks : RefInsert(k)
    \/ \E k \in 1..MaxTasks : UpdateBalance(k)
    \/ \E k \in 1..MaxTasks : SubSelect(k)
    \/ \E k \in 1..MaxTasks : SubWrite(k)
    \/ \E k \in 1..MaxTasks, ok \in BOOLEAN : Notify(k, ok)
    \/ \E k \in 1..MaxTasks : BonusCount(k)
    \/ \E k \in 1..MaxTasks : BonusUser(k)

SpecStart == InitStart /\ [][NextStart]_vars

(* C9: each user is the invitee of at most one referral edge. *)
C9_AtMostOneEdge ==
    \A u \in Users :
        Cardinality({ i \in DOMAIN referrals : referrals[i].user_id = u }) <= 1

\* the handlers of user_id that have granted the free days (credited the points)
FreeGrants(user_id) ==
    { k \in DOMAIN tasks : tasks[k].user = user_id /\ tasks[k].free }

PointCredits(user_id) ==
    { k \in DOMAIN tasks : tasks[k].user = user_id /\ tasks[k].points }

(* C11: over all the /start handlers of a user, the free days are granted at *)
(* most once and points are credited for that user at most once.            *)
C11_FreeDaysOnce ==
    \A u \in Users :
        /\ Cardinality(FreeGrants(u)) <= 1
        /\ Cardinality(PointCredits(u)) <= 1

----------------------------------------------------------------------------
(* Referral milestones, /start handlers interleaved: the handlers of SpecStart *)
(* started from the states of InitBonus                                        *)

SpecStartBonus == InitBonus /\ [][NextStart]_vars

\* the referrals of Referrer recorded before the handlers of this run
PastCount ==
    Cardinality({ i \in DOMAIN referrals : /\ referrals[i].referrer_id = Referrer
                                           /\ referrals[i].user_id \notin Users })

\* the handlers that ran the branch of milestone m for Referrer
Fired(m) == { k \in DOMAIN tasks : tasks[k].param = Referrer /\ tasks[k].fired = m }

\* the handlers started are of different users
DifferentInvitees ==
    \A j, k \in DOMAIN tasks : j # k => tasks[j].user # tasks[k].user

\* every handler has returned, and every send of a handler that recorded a
\* referral went through
QuietRun ==
    \A k \in DOMAIN tasks : tasks[k].pc = "done" /\ (tasks[k].points => tasks[k].sent)

(* C13: with the /start handlers of different invitees interleaved, for each of *)
(* the thresholds 3, 5 and 10 no two handlers run its branch, and once all have *)
(* returned, every send delivered, a threshold the referrer's count has passed  *)
(* through has had its branch run by exactly one of them.                       *)
C13_MilestoneOnce ==
    \A m \in Milestones :
        DifferentInvitees =>
            /\ Cardinality(Fired(m)) <= 1
            /\ (/\ QuietRun
                /\ PastCount < m
                /\ count_user_referrals(referrals, Referrer) >= m) =>
                   Cardinality(Fired(m)) = 1

----------------------------------------------------------------------------
(* /confirm_payment, handlers interleaved at their awaits *)

Busy(ts, k, payment_id) ==
    \E j \in DOMAIN ts \ {k} :
        ts[j].id = payment_id /\ ts[j].passed /\ ts[j].pc # "done"

\* an admin sends /confirm_payment <payment_id> and the handler is started
ConfirmBegin(payment_id) ==
    /\ Len(tasks) < MaxTasks
    /\ tasks' = Append(tasks, [pc |-> "get_payment", id |-> payment_id,
                               passed |-> FALSE, sid |-> 0, current_end |-> NULL,
                               t0 |-> 0, ret |-> NULL])
    /\ UNCHANGED << users, subscriptions, referrals, ledger_rest >>

\* await db.get_payment(payment_id) and the two checks on its result
ConfirmGetPayment(k) ==
    /\ At(k, "get_payment")
    /\ LET id == tasks[k].id
           ok == passes_check(payments, id, Busy(tasks, k, id))
       IN tasks' = [tasks EXCEPT ![k].passed = ok,
                                 ![k].pc = IF ok THEN "confirm" ELSE "done",
                                 ![k].ret = IF id \notin DOMAIN payments THEN 2
                                            ELSE IF ok THEN NULL ELSE 3]
    /\ UNCHANGED << users, subscriptions, referrals, ledger_rest >>

\* await db.confirm_payment(payment_id): the unconditional UPDATE
ConfirmCommit(k) ==
    /\ At(k, "confirm")
    /\ payments' = confirm_payment(payments, tasks[k].id, now)
    /\ tasks' = [tasks EXCEPT ![k].pc =
                     IF payments[tasks[k].id].product_type = "club"
                     THEN "sub_select" ELSE "notify"]
    /\ UNCHANGED << now, users, subscriptions, crypto_payments, referrals, charged,
                    fulfilled, sub_calls, last, invoices >>

\* add_subscription, its SELECT of the user's latest active row
ConfirmSubSelect(k) ==
    /\ At(k, "sub_select")
    /\ LET sid == latest_active(subscriptions, payments[tasks[k].id].user_id)
       IN tasks' = [tasks EXCEPT ![k].pc = "sub_write",
                                 ![k].sid = sid,
                                 ![k].current_end = EndOf(subscriptions, sid),
                                 ![k].t0 = now]
    /\ UNCHANGED << users, subscriptions, referrals, ledger_rest >>

\* add_subscription, its UPDATE or INSERT; the notice to the customer and the
\* report to the admin follow and change no table
ConfirmSubWrite(k) ==
    /\ At(k, "sub_write")
    /\ LET pay == payments[tasks[k].id]
       IN /\ subscriptions' =
                 write_subscription(subscriptions, pay.user_id,
                                    get_payment_description(pay.product_type).days,
                                    tasks[k].sid, tasks[k].current_end,
                                    tasks[k].t0, now)
          /\ fulfilled' = Dispatched(fulfilled, tasks[k].id, pay.product_type)
    /\ tasks' = [tasks EXCEPT ![k].pc = "done", ![k].ret = 0]
    /\ UNCHANGED << now, users, payments, crypto_payments, referrals, charged,
                    sub_calls, last, invoices >>

\* the branch of the other products: the notice to the customer, then the report
ConfirmNotify(k) ==
    /\ At(k, "notify")
    /\ fulfilled' = Dispatched(fulfilled, tasks[k].id,
                               payments[tasks[k].id].product_type)
    /\ tasks' = [tasks EXCEPT ![k].pc = "done", ![k].ret = 0]
    /\ UNCHANGED << now, users, subscriptions, payments, crypto_payments, referrals,
                    charged, sub_calls, last, invoices >>

NextConfirm ==
    \/ \E u \in Customers, p \in Products, m \in Methods : CreatePayment(u, p, m)
    \/ \E id \in 1..MaxPayments : ConfirmBegin(id)
    \/ \E k \in 1..MaxTasks :
           \/ ConfirmGetPayment(k)
           \/ ConfirmCommit(k)
           \/ ConfirmSubSelect(k)
           \/ ConfirmSubWrite(k)
           \/ ConfirmNotify(k)

SpecConfirm == Init /\ [][NextConfirm]_vars

\* the handlers that passed the check for payment_id
Passed(payment_id) ==
    { k \in DOMAIN tasks : tasks[k].id = payment_id /\ tasks[k].passed }

C26_DispatchPerPassedHandler ==
    \A id \in DOMAIN payments :
        fulfilled[id].dispatches =
            Cardinality({ k \in Passed(id) : tasks[k].pc = "done" })

C26_PendingCheckPasses ==
    \A k \in DOMAIN tasks :
        (/\ At(k, "get_payment")
         /\ tasks'[k].pc # "get_payment"
         /\ tasks[k].id \in DOMAIN payments
         /\ payments[tasks[k].id].status = "pending") => tasks'[k].passed

(* C26: a /confirm_payment handler whose check finds the row still pending    *)
(* passes it, also while another handler has passed it for the same payment   *)
(* and not yet committed, and every handler that passed runs the fulfillment:  *)
(* two interleaved handlers can so extend the subscription twice, by 60 days,  *)
(* for one club payment.                                                       *)
C26_DoubleFulfillment ==
    [](C26_DispatchPerPassedHandler) /\ [][C26_PendingCheckPasses]_vars

C26_Witness ==
    \E id \in DOMAIN payments :
        /\ payments[id].product_type = "club"
        /\ Cardinality(Passed(id)) = 2
        /\ \A k \in Passed(id) : tasks[k].pc = "done"
        /\ fulfilled[id].dispatches = 2
        /\ \E i \in DOMAIN subscriptions :
               /\ subscriptions[i].user_id = payments[id].user_id
               /\ subscriptions[i].end_date =
                      payments[id].confirmed_at + Days(2 * ClubDays)

----------------------------------------------------------------------------
(* The expiry sweep run step by step, its awaits open to add_subscription *)

\* the scheduler (or run_startup_tasks) starts _check_expired_subscriptions: the
\* snapshot is taken
SweepBegin ==
    /\ Len(tasks) < MaxTasks
    /\ tasks' = Append(tasks,
                       [pc |-> "loop",
                        due |-> get_expired_subscriptions(subscriptions, users, now)])
    /\ UNCHANGED << users, subscriptions, referrals, ledger_rest >>

\* one turn of the loop: the next row of the snapshot is deactivated by its
\* subscription_id, its user is removed from the group and sent the notice
SweepRow(k) ==
    /\ At(k, "loop")
    /\ IF tasks[k].due = {}
       THEN /\ tasks' = [tasks EXCEPT ![k].pc = "done"]
            /\ UNCHANGED subscriptions
       ELSE LET i == CHOOSE x \in tasks[k].due : \A y \in tasks[k].due : x <= y
            IN /\ subscriptions' = deactivate_subscription(subscriptions, i)
               /\ tasks' = [tasks EXCEPT ![k].due = @ \ {i}]
    /\ UNCHANGED << users, referrals, ledger_rest >>

NextSweep ==
    \/ \E u \in Customers, d \in GrantDays : AddSubscription(u, d)
    \/ SweepBegin
    \/ \E k \in 1..MaxTasks : SweepRow(k)
    \/ Advance(Days(FreeDays), Days(SubMaxDays))

SpecSweep == InitSub /\ [][NextSweep]_vars

(* C33: under any interleaving of the sweep with add_subscription, a row is *)
(* set to expired only if its end_date is in the past at that moment: a      *)
(* renewal landing between the snapshot and the deactivation is not lost.    *)
C33_DeactivateOnlyPastRows ==
    [][\A i \in DOMAIN subscriptions :
          (subscriptions[i].status = "active" /\ subscriptions'[i].status = "expired")
              => subscriptions[i].end_date < now]_vars

----------------------------------------------------------------------------
(* add_subscription calls interleaved at their database awaits *)

\* a handler calls add_subscription(user_id, days): the clock is read (line 180)
AddSubBegin(user_id, days) ==
    /\ Len(tasks) < MaxTasks
    /\ tasks' = Append(tasks, [pc |-> "select", user |-> user_id, days |-> days,
                               sid |-> 0, current_end |-> NULL, t0 |-> now])
    /\ UNCHANGED << users, subscriptions, referrals, ledger_rest >>

\* the SELECT of the user's latest active row
AddSubSelect(k) ==
    /\ At(k, "select")
    /\ LET sid == latest_active(subscriptions, tasks[k].user)
       IN tasks' = [tasks EXCEPT ![k].pc = "write",
                                 ![k].sid = sid,
                                 ![k].current_end = EndOf(subscriptions, sid)]
    /\ UNCHANGED << users, subscriptions, referrals, ledger_rest >>

\* the UPDATE of the row found, or the INSERT of a new row, and the commit
AddSubWrite(k) ==
    /\ At(k, "write")
    /\ subscriptions' = write_subscription(subscriptions, tasks[k].user, tasks[k].days,
                                           tasks[k].sid, tasks[k].current_end,
                                           tasks[k].t0, now)
    /\ tasks' = [tasks EXCEPT ![k].pc = "done"]
    /\ UNCHANGED << users, referrals, ledger_rest >>

NextAddSub ==
    \/ \E u \in Customers, d \in GrantDays : AddSubBegin(u, d)
    \/ \E k \in 1..MaxTasks : AddSubSelect(k) \/ AddSubWrite(k)
    \/ Advance(Days(FreeDays), Days(SubMaxDays))

SpecAddSub == InitSub /\ [][NextAddSub]_vars

CallsOf(user_id) == { k \in DOMAIN tasks : tasks[k].user = user_id }

RECURSIVE SumDays(_)
SumDays(ks) ==
    IF ks = {} THEN 0
    ELSE LET k == CHOOSE x \in ks : TRUE
         IN tasks[k].days + SumDays(ks \ {k})

(* C34: add_subscription calls for one user that interleave at their database *)
(* awaits all take effect: once they have returned, with no time passed, the   *)
(* user's subscription ends at the base date plus the days of every call.      *)
C34_NoLostUpdate ==
    \A u \in Customers :
        (/\ now = 0
         /\ Cardinality(CallsOf(u)) >= 2
         /\ \A k \in CallsOf(u) : tasks[k].pc = "done") =>
            \E i \in DOMAIN subscriptions :
                /\ subscriptions[i].user_id = u
                /\ subscriptions[i].status = "active"
                /\ subscriptions[i].end_date = Days(SumDays(CallsOf(u)))

(* C35: in every reachable state, under any interleaving of add_subscription *)
(* calls, each user has at most one subscription row with status active.     *)
C35_OneActiveRowPerUser ==
    \A u \in Customers :
        Cardinality({ i \in DOMAIN subscriptions :
                        subscriptions[i].user_id = u
                        /\ subscriptions[i].status = "active" }) <= 1

----------------------------------------------------------------------------
(* Expiry of paid subscriptions: registration, payment, confirmation, sweep *)

\* a month and a day pass
MonthPasses == Advance(Days(ClubDays) + 1, Days(ClubDays) + 1)

\* from the empty database: a user registers with a plain /start, or not; any
\* user who reaches the payment buttons (callback_pay_method reads
\* callback.from_user.id and asks for no users row) creates a payment; an admin
\* confirms it; the sweep runs; time passes
NextExpiry ==
    \/ \E u \in Customers : CmdStart(u, 0, TRUE)
    \/ \E u \in Customers, p \in Products, m \in Methods : CreatePayment(u, p, m)
    \/ \E s \in AdminIds, id \in 1..MaxPayments, ok \in BOOLEAN :
           CmdConfirmPayment(s, WellFormed(id), ok)
    \/ Sweep
    \/ MonthPasses

SpecExpiry == Init /\ [][NextExpiry]_vars

\* the sweep is a job of the scheduler with IntervalTrigger(hours=1), started
\* before polling and run once by run_startup_tasks: as long as the process
\* runs, a sweep that has something to do is eventually run
LiveExpiry == SpecExpiry /\ WF_vars(Sweep)

\* row i as one sweep should leave it at clock t
Swept(row, t) ==
    IF row.status = "active" /\ row.end_date < t
    THEN [row EXCEPT !.status = "expired"]
    ELSE row

(* C27: one expiry sweep in which nothing fails sets to expired exactly the   *)
(* rows that were active with end_date earlier than now, and leaves every     *)
(* other row and every end_date as they were.                                 *)
C27_SweepExactlyTheDue ==
    [][(/\ last'.op = "expiry_sweep"
        /\ \A i \in DOMAIN last'.outcome : last'.outcome[i] = "ok") =>
          /\ DOMAIN subscriptions' = DOMAIN subscriptions
          /\ \A i \in DOMAIN subscriptions :
                 subscriptions'[i] = Swept(subscriptions[i], now)]_vars

(* C22: every subscription row that is active with end_date in the past is *)
(* eventually set to expired (or, renewed, ends in the future again).       *)
C22_PastRowsEventuallyExpired ==
    \A i \in 1..MaxPayments :
        (/\ i \in DOMAIN subscriptions
         /\ subscriptions[i].status = "active"
         /\ subscriptions[i].end_date < now)
            ~> (/\ i \in DOMAIN subscriptions
                /\ \/ subscriptions[i].status = "expired"
                   \/ subscriptions[i].end_date >= now)

----------------------------------------------------------------------------
(* Ledger store: crypto invoices, and the crypto poll cycle *)

create_crypto_payment(cps, user_id, invoice_id, product_type) ==
    Append(cps, [user_id |-> user_id, invoice_id |-> invoice_id,
                 product_type |-> product_type,
                 status |-> "pending", paid_at |-> NULL])

\* UPDATE crypto_payments SET status = 'confirmed', paid_at = ? WHERE invoice_id = ?
confirm_crypto_payment(cps, invoice_id, t) ==
    [i \in DOMAIN cps |->
        IF cps[i].invoice_id = invoice_id
        THEN [cps[i] EXCEPT !.status = "confirmed", !.paid_at = t]
        ELSE cps[i]]

\* UPDATE crypto_payments SET status = 'expired' WHERE invoice_id = ?
mark_crypto_payment_expired(cps, invoice_id) ==
    [i \in DOMAIN cps |->
        IF cps[i].invoice_id = invoice_id
        THEN [cps[i] EXCEPT !.status = "expired"]
        ELSE cps[i]]

get_pending_crypto_payments(cps) ==
    { i \in DOMAIN cps : cps[i].status = "pending" }

\* create_crypto_payment is called for a user with the id of a fresh invoice,
\* which the payment service holds as active
CreateCryptoPayment(user_id, product_type) ==
    /\ Len(crypto_payments) < MaxCrypto
    /\ crypto_payments' = create_crypto_payment(crypto_payments, user_id,
                                                Len(crypto_payments) + 1, product_type)
    /\ invoices' = Append(invoices, "active")
    /\ last' = [op |-> "create_crypto_payment", user |-> user_id, arg |-> 0,
                ret |-> Len(crypto_payments) + 1]
    /\ UNCHANGED << now, users, subscriptions, payments, referrals, charged,
                    fulfilled, sub_calls, tasks >>

\* at the payment service an active invoice is paid by the customer or runs out
InvoiceSettles(invoice_id, status) ==
    /\ invoice_id \in DOMAIN invoices
    /\ invoices[invoice_id] = "active"
    /\ invoices' = [invoices EXCEPT ![invoice_id] = status]
    /\ last' = [op |-> "invoice", user |-> 0, arg |-> invoice_id, ret |-> 0]
    /\ UNCHANGED << now, users, subscriptions, payments, crypto_payments, referrals,
                    charged, fulfilled, sub_calls, tasks >>

\* the rates callback_crypto_asset knows; any other asset is a KeyError
CryptoRates == {"BTC", "ETH", "USDT"}
Assets == CryptoRates \cup {"TON"}

\* f"crypto:{asset}"
CryptoMethod(asset) ==
    CASE asset = "BTC" -> "crypto:BTC"
      [] asset = "ETH" -> "crypto:ETH"
      [] asset = "USDT" -> "crypto:USDT"
      [] OTHER -> "crypto:"

\* callback_crypto_asset: the user chooses the asset to pay a product with.  The
\* handler computes the amount, records the payment with create_payment and
\* method "crypto:<asset>" and shows the wallet to pay to; an unknown asset
\* raises KeyError, answered with an error text (ret NULL).  It issues no
\* invoice and makes no call of create_crypto_payment.
CallbackCryptoAsset(user_id, product_type, asset) ==
    /\ Len(payments) < MaxPayments
    /\ IF asset \in CryptoRates
       THEN /\ payments' = create_payment(payments, user_id,
                                get_payment_description(product_type).amount,
                                product_type, CryptoMethod(asset))
            /\ fulfilled' = Append(fulfilled, [dispatches |-> 0, days |-> 0])
       ELSE UNCHANGED << payments, fulfilled >>
    /\ last' = [op |-> "callback_crypto_asset", user |-> user_id, arg |-> 0,
                ret |-> IF asset \in CryptoRates THEN Len(payments) + 1 ELSE NULL]
    /\ UNCHANGED << now, users, subscriptions, crypto_payments, referrals, charged,
                    sub_calls, tasks, invoices >>

\* confirm_crypto_payment is called with the id of a recorded invoice
ConfirmCryptoPayment(invoice_id) ==
    /\ \E i \in DOMAIN crypto_payments : crypto_payments[i].invoice_id = invoice_id
    /\ crypto_payments' = confirm_crypto_payment(crypto_payments, invoice_id, now)
    /\ last' = [op |-> "confirm_crypto_payment", user |-> 0, arg |-> invoice_id, ret |-> 1]
    /\ UNCHANGED << now, users, subscriptions, payments, referrals, charged,
                    fulfilled, sub_calls, tasks, invoices >>

\* mark_crypto_payment_expired is called with the id of a recorded invoice
MarkCryptoPaymentExpired(invoice_id) ==
    /\ \E i \in DOMAIN crypto_payments : crypto_payments[i].invoice_id = invoice_id
    /\ crypto_payments' = mark_crypto_payment_expired(crypto_payments, invoice_id)
    /\ last' = [op |-> "mark_crypto_payment_expired", user |-> 0, arg |-> invoice_id,
                ret |-> 1]
    /\ UNCHANGED << now, users, subscriptions, payments, referrals, charged,
                    fulfilled, sub_calls, tasks, invoices >>

\* what the payment service answers when asked for an invoice: its status, or
\* "error" when check_invoice raises (request failed, invoice not found)
InvoiceAnswers == {"active", "paid", "expired", "error"}

\* _check_pending_crypto_payments as written, ext being what the payment service
\* would answer for each row of the snapshot: with no pending row it returns;
\* otherwise it builds the API client from self.config.crypto_pay, an attribute
\* Config does not have, and the AttributeError is caught by the outer handler
\* (line 465) before the loop over the rows is entered
CheckPendingCryptoPayments(ext) ==
    /\ last' = [op |-> "check_pending_crypto_payments", user |-> 0, arg |-> 0,
                ret |-> IF get_pending_crypto_payments(crypto_payments) = {}
                        THEN 0 ELSE NULL,
                ext |-> ext]
    /\ UNCHANGED << now, users, subscriptions, payments, crypto_payments, referrals,
                    charged, fulfilled, sub_calls, tasks, invoices >>

\* what the service can answer to one cycle: for each pending row the status of
\* its invoice, or an error
PollAnswers ==
    { ext \in [get_pending_crypto_payments(crypto_payments) -> InvoiceAnswers] :
        \A i \in DOMAIN ext :
            ext[i] \in {invoices[crypto_payments[i].invoice_id], "error"} }

Poll == \E ext \in PollAnswers : CheckPendingCryptoPayments(ext)

NextCrypto ==
    \/ \E u \in Customers, p \in Products : CreateCryptoPayment(u, p)
    \/ \E inv \in 1..MaxCrypto : ConfirmCryptoPayment(inv)
    \/ \E inv \in 1..MaxCrypto : MarkCryptoPaymentExpired(inv)
    \/ \E inv \in 1..MaxCrypto, st \in {"paid", "expired"} : InvoiceSettles(inv, st)
    \/ Poll
    \/ Advance(1, PayMaxTime)

SpecCrypto == Init /\ [][NextCrypto]_vars

\* paying with a crypto asset as the handlers do it: the user chooses the asset,
\* an admin confirms the payment by command, and the poll cycle looks for
\* pending crypto_payments rows
NextAsset ==
    \/ \E u \in Customers, p \in Products, a \in Assets : CallbackCryptoAsset(u, p, a)
    \/ \E s \in Customers, id \in 1..(MaxPayments + 1), ok \in BOOLEAN :
           CmdConfirmPayment(s, WellFormed(id), ok)
    \/ Poll

SpecAsset == Init /\ [][NextAsset]_vars

\* the same with the poll cycle run again and again, as a job of the scheduler
\* is.  _init_tasks (scheduled_tasks.py:37-81) adds no job for
\* _check_pending_crypto_payments; the cycle is granted the fairness of a
\* scheduled job all the same, which only adds to what the specification
\* guarantees.
LiveCrypto == SpecCrypto /\ WF_vars(Poll)

(* C4: a crypto_payments row that is confirmed or expired keeps its status *)
(* and its paid_at in every later step.                                    *)
C4_CryptoTerminal ==
    [][\A i \in DOMAIN crypto_payments :
          crypto_payments[i].status \in {"confirmed", "expired"} =>
              /\ crypto_payments'[i].status = crypto_payments[i].status
              /\ crypto_payments'[i].paid_at = crypto_payments[i].paid_at]_vars

\* a step that is one run of the crypto poll cycle
PollCycle == last'.op = "check_pending_crypto_payments"

(* C14: a poll cycle leaves every pending row whose invoice is paid confirmed, *)
(* with paid_at stamped, and for product club leaves its user with an active   *)
(* subscription ending 30 days from now or later.                              *)
C14_PaidConfirmed ==
    [][PollCycle =>
          \A i \in get_pending_crypto_payments(crypto_payments) :
              last'.ext[i] = "paid" =>
                  /\ crypto_payments'[i].status = "confirmed"
                  /\ crypto_payments'[i].paid_at = now
                  /\ crypto_payments[i].product_type = "club" =>
                         LET r == check_subscription(subscriptions',
                                                     crypto_payments[i].user_id, now)
                         IN r # 0 /\ subscriptions'[r].end_date >= now + Days(ClubDays)]_vars

(* C15: a poll cycle leaves every pending row whose invoice is expired with    *)
(* status expired and every pending row whose invoice is still active pending, *)
(* and a cycle that finds no paid invoice changes no subscription row.         *)
C15_ExpiredAndOther ==
    [][PollCycle =>
          /\ \A i \in get_pending_crypto_payments(crypto_payments) :
                 /\ last'.ext[i] = "expired" => crypto_payments'[i].status = "expired"
                 /\ last'.ext[i] = "active" => crypto_payments'[i] = crypto_payments[i]
          /\ (\A i \in DOMAIN last'.ext : last'.ext[i] # "paid") =>
                 subscriptions' = subscriptions]_vars

(* C16: in a poll cycle where the check of one invoice fails, that row stays *)
(* pending and every other pending row is still settled by its own invoice:  *)
(* paid rows are confirmed, expired rows are marked expired.                 *)
C16_ItemIsolation ==
    [][(PollCycle /\ \E j \in DOMAIN last'.ext : last'.ext[j] = "error") =>
          \A i \in get_pending_crypto_payments(crypto_payments) :
              crypto_payments'[i].status =
                  CASE last'.ext[i] = "paid" -> "confirmed"
                    [] last'.ext[i] = "expired" -> "expired"
                    [] OTHER -> "pending"]_vars

(* C23: every crypto payment that is pending while its invoice is paid at the *)
(* payment service is eventually marked confirmed.                            *)
C23_PaidEventuallyConfirmed ==
    \A i \in 1..MaxCrypto :
        (/\ i \in DOMAIN crypto_payments
         /\ crypto_payments[i].status = "pending"
         /\ invoices[crypto_payments[i].invoice_id] = "paid")
            ~> (i \in DOMAIN crypto_payments /\ crypto_payments[i].status = "confirmed")

(* C25: when a user chooses a crypto asset for a product, a pending          *)
(* crypto_payments row is created for that user, and the poll cycle finds it. *)
C25_AssetChoiceCreatesCryptoPayment ==
    [][(last'.op = "callback_crypto_asset" /\ last'.ret # NULL) =>
          \E i \in DOMAIN crypto_payments' :
              /\ i \notin DOMAIN crypto_payments
              /\ crypto_payments'[i].user_id = last'.user
              /\ crypto_payments'[i].status = "pending"
              /\ i \in get_pending_crypto_payments(crypto_payments')]_vars

----------------------------------------------------------------------------
(* Telegram Stars: the amount put on the invoice *)

MaxAmount == 50

\* the rate 0.75 of callback_pay_method, a binary fraction: 3/4
StarsNum == 3
StarsDen == 4

\* int(x) of the float x = n / d: the fraction is dropped, towards zero
int_trunc(n, d) == IF n >= 0 THEN n \div d ELSE -((-n) \div d)

stars_amount_rounded(amount) ==
    (amount * StarsNum + StarsDen \div 2) \div StarsDen

\* stars_amount = int(amount * 0.75); amount * 0.75 is exact in a double for
\* every amount the model ranges over
stars_amount(amount) == int_trunc(amount * StarsNum, StarsDen)

\* callback_pay_method with method stars, under a configuration that prices
\* the three products at price: the payment row is created and the invoice is
\* sent with prices = [stars_amount]
PayWithStars(user_id, product_type, price) ==
    LET amount == IF product_type \in {"club", "vietnam", "consultation"}
                  THEN price ELSE 0
    IN /\ Len(payments) < MaxPayments
       /\ payments' = create_payment(payments, user_id, amount, product_type, "stars")
       /\ fulfilled' = Append(fulfilled, [dispatches |-> 0, days |-> 0])
       /\ last' = [op |-> "stars_invoice", user |-> user_id, arg |-> amount,
                   ret |-> stars_amount(amount)]
       /\ UNCHANGED << now, users, subscriptions, crypto_payments, referrals,
                       charged, sub_calls, tasks, invoices >>

\* the prices tried: every small amount, and the prices of the shipped settings
Prices == 0..MaxAmount \cup {ClubPrice, VietnamPrice, ConsultationPrice}

NextStars ==
    \E u \in Customers, p \in Products, price \in Prices : PayWithStars(u, p, price)

SpecStars == Init /\ [][NextStars]_vars

----------------------------------------------------------------------------
(* The doors of the club: join_club and access_club *)

\* callback_join_club: without a subscription from check_subscription the
\* handler returns; a user the group already lists gets a text; otherwise an
\* invite link is created (link_ok: create_chat_invite_link did not raise)
CallbackJoinClub(user_id, is_in_group, link_ok) ==
    LET subscription == check_subscription(subscriptions, user_id, now)
    IN /\ last' = [op |-> "join_club", user |-> user_id, arg |-> 0,
                   ret |-> subscription,
                   link |-> subscription # 0 /\ ~is_in_group /\ link_ok]
       /\ UNCHANGED << now, users, subscriptions, payments, crypto_payments,
                       referrals, charged, fulfilled, sub_calls, tasks, invoices >>

\* callback_access_club: the same lookup, then the invite link with no look
\* at the membership of the group
CallbackAccessClub(user_id, link_ok) ==
    LET subscription == check_subscription(subscriptions, user_id, now)
    IN /\ last' = [op |-> "access_club", user |-> user_id, arg |-> 0,
                   ret |-> subscription,
                   link |-> subscription # 0 /\ link_ok]
       /\ UNCHANGED << now, users, subscriptions, payments, crypto_payments,
                       referrals, charged, fulfilled, sub_calls, tasks, invoices >>

\* the store operations of SpecSub, the clock moving by weeks and within the
\* day, and the two door buttons
NextDoor ==
    \/ NextSub
    \/ LaterToday
    \/ \E u \in Customers, g, ok \in BOOLEAN : CallbackJoinClub(u, g, ok)
    \/ \E u \in Customers, ok \in BOOLEAN : CallbackAccessClub(u, ok)

SpecDoor == InitSub /\ [][NextDoor]_vars

AtDoor == last.op \in {"join_club", "access_club"}

(* C36: join_club and access_club create an invite link only when the lookup  *)
(* of the same run returned a subscription of that user, and a user with no   *)
(* active subscription ending later than now never receives an invite link.   *)
C36_InviteOnlyForSubscribers ==
    (AtDoor /\ last.link) =>
        /\ last.ret \in DOMAIN subscriptions
        /\ subscriptions[last.ret].user_id = last.user
        /\ Qualifying(subscriptions, last.user, now) # {}

----------------------------------------------------------------------------
(* The customer's side of a card or crypto payment: 'I paid', the screenshot, *)
(* the cancel button.  tasks holds the conversations in flight: for a user in *)
(* a state of the FSM storage, the state and the payment_id kept with it.     *)

state_clear(ts, user_id) ==
    LET Others(e) == e.user # user_id
    IN SelectSeq(ts, Others)

\* state.set_state(<group>.payment_confirmation); state.update_data(payment_id=...)
set_state(ts, user_id, group, payment_id) ==
    Append(state_clear(ts, user_id),
           [pc |-> group, user |-> user_id, payment_id |-> payment_id])

get_state(ts, user_id) ==
    IF \E k \in DOMAIN ts : ts[k].user = user_id
    THEN ts[CHOOSE k \in DOMAIN ts : ts[k].user = user_id]
    ELSE [pc |-> "none", user |-> user_id, payment_id |-> 0]

\* the routers holding a callback handler whose filter accepts
\* "confirm_payment:<id>", in the order main() includes them: crypto_router
\* before club.router before events.router
ConfirmPaymentHandlers == << "crypto", "club", "events" >>

\* the dispatcher hands the callback to the first handler that accepts it and
\* stops there
first_handler(handlers) == Head(handlers)

is_crypto(payment_method) ==
    payment_method \in { CryptoMethod(a) : a \in Assets }

\* what the handler of that router does with the payment it looked up: the
\* state it sets, or "none" when it answers with a text and returns.  The one
\* of crypto_router refuses every payment whose method is no crypto:<asset>;
\* the ones of club and events take any payment that exists
confirm_callback_state(router, pays, payment_id) ==
    IF payment_id \notin DOMAIN pays THEN "none"
    ELSE IF router = "crypto"
         THEN IF is_crypto(pays[payment_id].payment_method) THEN "crypto" ELSE "none"
         ELSE router

\* the 'I paid' button: callback confirm_payment:<payment_id> from user_id
CallbackConfirmPayment(user_id, payment_id) ==
    LET router == first_handler(ConfirmPaymentHandlers)
        group == confirm_callback_state(router, payments, payment_id)
    IN /\ tasks' = IF group = "none" THEN tasks
                   ELSE set_state(tasks, user_id, group, payment_id)
       /\ last' = [op |-> "callback_confirm_payment", user |-> user_id,
                   arg |-> payment_id, ret |-> group, handler |-> router]
       /\ UNCHANGED << now, users, subscriptions, payments, crypto_payments,
                       referrals, charged, fulfilled, sub_calls, invoices >>

\* a message of a user who is in a payment_confirmation state: anything but a
\* photo or a document is answered with a request to send one and the state
\* stays; otherwise the payment is looked up, every admin is sent the picture
\* with the payment id (delivered: the admins whose send went through) and the
\* state is cleared
ProcessPaymentConfirmation(user_id, is_media, delivered) ==
    LET st == get_state(tasks, user_id)
    IN /\ st.pc # "none"
       /\ tasks' = IF is_media THEN state_clear(tasks, user_id) ELSE tasks
       /\ last' = [op |-> "process_payment_confirmation", user |-> user_id,
                   arg |-> st.payment_id,
                   ret |-> IF is_media /\ st.payment_id \in DOMAIN payments
                           THEN delivered ELSE {},
                   handler |-> st.pc]
       /\ UNCHANGED << now, users, subscriptions, payments, crypto_payments,
                       referrals, charged, fulfilled, sub_calls, invoices >>

\* the cancel button: state.clear() and the main menu
CallbackCancelPayment(user_id) ==
    /\ tasks' = state_clear(tasks, user_id)
    /\ last' = [op |-> "callback_cancel_payment", user |-> user_id, arg |-> 0,
                ret |-> 0]
    /\ UNCHANGED << now, users, subscriptions, payments, crypto_payments,
                    referrals, charged, fulfilled, sub_calls, invoices >>

\* an admin and a customer who is none; a product with days and one without;
\* an asset with a rate
Payers == {1, 2}
DialogProducts == {"club", "vietnam"}
DialogAssets == {"USDT"}

\* every way a payment is made, pursued and confirmed: the method chosen, the
\* three customer steps, the admin's command and the platform's Stars report
NextDialog ==
    \/ \E u \in Payers, p \in DialogProducts, m \in Methods : CreatePayment(u, p, m)
    \/ \E u \in Payers, p \in DialogProducts, a \in DialogAssets :
           CallbackCryptoAsset(u, p, a)
    \/ \E u \in Payers, id \in 1..(MaxPayments + 1) : CallbackConfirmPayment(u, id)
    \/ \E u \in Payers, m \in BOOLEAN, d \in SUBSET AdminIds :
           ProcessPaymentConfirmation(u, m, d)
    \/ \E u \in Payers : CallbackCancelPayment(u)
    \/ \E s \in Payers, id \in 1..(MaxPayments + 1), ok \in BOOLEAN :
           CmdConfirmPayment(s, WellFormed(id), ok)
    \/ \E id \in 1..MaxPayments : SuccessfulPayment(id)

SpecDialog == Init /\ [][NextDialog]_vars

CustomerSteps ==
    {"create_payment", "callback_crypto_asset", "callback_confirm_payment",
     "process_payment_confirmation", "callback_cancel_payment"}

(* C37: a payment by card or crypto:<asset> becomes confirmed only through a  *)
(* /confirm_payment of a user listed in admin_ids for that payment, and no    *)
(* step on the customer's side (choosing a method, 'I paid', the screenshot,  *)
(* cancelling) changes the status of any payment.                             *)
C37_OnlyAdminConfirmsManualPayments ==
    [][/\ \A id \in DOMAIN payments :
             (/\ payments[id].payment_method # "stars"
              /\ payments[id].status # "confirmed"
              /\ payments'[id].status = "confirmed")
                 => /\ last'.op = "cmd_confirm_payment"
                    /\ last'.user \in AdminIds
                    /\ last'.arg = id
       /\ last'.op \in CustomerSteps =>
              \A id \in DOMAIN payments : payments'[id] = payments[id]]_vars

C37_Witness ==
    /\ last.op = "cmd_confirm_payment"
    /\ last.confirmed
    /\ is_crypto(payments[last.arg].payment_method)
    /\ payments[last.arg].status = "confirmed"
    /\ tasks # << >>

(* C40: pressing 'I paid' for a pending payment by card puts the user into    *)
(* the state that awaits the screenshot of that payment, set by the first     *)
(* handler accepting the callback.                                            *)
C40_PaidButtonAwaitsScreenshot ==
    (/\ last.op = "callback_confirm_payment"
     /\ last.arg \in DOMAIN payments
     /\ payments[last.arg].payment_method = "card"
     /\ payments[last.arg].status = "pending")
        => /\ get_state(tasks, last.user).pc # "none"
           /\ get_state(tasks, last.user).payment_id = last.arg

----------------------------------------------------------------------------
(* /start with the text of its parameter *)

\* the parameter of /start as extract_referrer_id reads it: whether it starts
\* with ref_, whether what follows decodes (base64, then int()) and the number
\* it decodes to
NoParam == [ref |-> FALSE, decodes |-> FALSE, id |-> 0]
Garbled == [ref |-> TRUE, decodes |-> FALSE, id |-> 0]

\* generate_ref_link: "ref_" and the url-safe base64 of str(user_id)
generate_ref_link(user_id) == [ref |-> TRUE, decodes |-> TRUE, id |-> user_id]

StartTexts ==
    {NoParam, Garbled} \cup { generate_ref_link(n) : n \in 0..(NumUsers + 1) }

\* None (0 here) unless the parameter starts with ref_ and the rest decodes to
\* an int; cmd_start treats 0 like None
extract_referrer_id(start_param) ==
    IF ~start_param.ref THEN 0
    ELSE IF ~start_param.decodes THEN 0
    ELSE start_param.id

\* /start of user_id with the parameter start_param
CmdStartText(user_id, start_param, sends_ok) ==
    LET referrer_id == extract_referrer_id(start_param)
        r == cmd_start(users, subscriptions, referrals, user_id, referrer_id,
                       sends_ok, now)
    IN /\ users' = r.users
       /\ referrals' = r.referrals
       /\ subscriptions' = r.subscriptions
       /\ last' = [op |-> "start", user |-> user_id, arg |-> referrer_id,
                   ret |-> r.ret, text |-> start_param]
       /\ UNCHANGED << now, payments, crypto_payments, charged, fulfilled,
                       sub_calls, tasks, invoices >>

\* the customers send /start with any of the texts; the other users never
\* register, and their links are the links of nobody the bot knows
NextText ==
    \/ \E u \in Customers, p \in StartTexts, ok \in BOOLEAN : CmdStartText(u, p, ok)
    \/ Advance(Days(FreeDays), Days(SubMaxDays))

SpecText == Init /\ [][NextText]_vars

\* the user's own link, a link that does not decode, or the link of nobody
\* the bot knows
Unusable(us, user_id, start_param) ==
    \/ start_param = generate_ref_link(user_id)
    \/ start_param = Garbled
    \/ (start_param.ref /\ start_param.decodes /\ start_param.id \notin DOMAIN us)

(* C38: every referral edge has user_id different from referrer_id and names  *)
(* a referrer who had a users row when the edge was inserted; a /start with   *)
(* the user's own link, a link that does not decode or the link of an unknown *)
(* referrer creates no edge and awards no points and no free days.            *)
C38_EdgesNameOtherKnownUsers ==
    [][/\ \A i \in DOMAIN referrals' :
             i \notin DOMAIN referrals =>
                 /\ referrals'[i].user_id # referrals'[i].referrer_id
                 /\ referrals'[i].referrer_id \in DOMAIN users
       /\ (last'.op = "start" /\ Unusable(users, last'.user, last'.text)) =>
              /\ referrals' = referrals
              /\ subscriptions' = subscriptions
              /\ \A u \in DOMAIN users : users'[u] = users[u]
              /\ \A u \in DOMAIN users' : u \notin DOMAIN users => users'[u].balance = 0]_vars

C38_Witness ==
    /\ last.op = "start"
    /\ last.text = generate_ref_link(last.user)
    /\ Len(referrals) = 2
    /\ users[last.user].balance = PointsPerReferral

(* C39: the referral relation has no two-cycle: when A is recorded as the     *)
(* referrer of B, B is never recorded as the referrer of A.                   *)
C39_NoTwoCycle ==
    \A i, j \in DOMAIN referrals :
        ~(/\ referrals[i].user_id = referrals[j].referrer_id
          /\ referrals[i].referrer_id = referrals[j].user_id)

====
